---- MODULE Spec2Model ----
(***************************************************************************)
(* Wendy fairness core (zuluprotocol/wendy, package core): the Wendy       *)
(* state of src/core/core.go, with the per-sender vote log it delegates to *)
(* (Sender: AddVote, Seen, Before, UpdateTxSet).                           *)
(*                                                                         *)
(* Spec     : every exported operation as one atomic step (one caller).    *)
(* ConcSpec : UpdateValidatorSet split at the statements it runs before it *)
(*            takes votesMtx, interleaved with the other calls and with    *)
(*            an observer evaluating IsBlocked.                            *)
(***************************************************************************)
EXTENDS Integers, FiniteSets, Sequences, TLC

\* ------------------------------------------------------------------ bounds
MaxSeq == 1      \* votes carry seq 0..MaxSeq
MaxOps == 4      \* mutating calls made on one Wendy

\* Quorum = QuorumNum / QuorumDen, the fraction of the validator set.
QuorumNum == 2
QuorumDen == 3

\* The keys and transactions of the test suite.
pub0 == "pub0"
pub1 == "pub1"
pub2 == "pub2"
pub3 == "pub3"
AllValidators == <<pub0, pub1, pub2, pub3>>
IDs == {pub0, pub1, pub2, pub3}

testTx0 == [bytes |-> "tx0", hash |-> "h0"]
testTx1 == [bytes |-> "tx1", hash |-> "h1"]
Txs == {testTx0, testTx1}

\* testTx.Hash(): the tx's hash bytes, copied into a Hash.
Hash(tx) == tx.hash
Hashes == {Hash(tx) : tx \in Txs}

Seqs == 0..MaxSeq

\* Vote: (Pubkey, Seq, TxHash).
Votes == [Pubkey : IDs, Seq : Seqs, TxHash : Hashes]
newVote(pub, seq, tx) == [Pubkey |-> pub, Seq |-> seq, TxHash |-> Hash(tx)]

\* nil: a value no vote, sender or result equals.
Nil == [nil |-> TRUE]

\* No call observed.
NoObs == [call |-> "none"]

\* The goroutines calling into one Wendy, and a goroutine that is in no call.
NumThreads == 2
Threads == 1..NumThreads
Idle == [op |-> "none", at |-> 0, phase |-> "call"]
Mutexes == {"txsMtx", "votesMtx"}

VARIABLES
    validators,   \* Wendy.validators : sequence of IDs
    quorum,       \* Wendy.quorum
    txs,          \* Wendy.txs    : Hash -> Tx (a map: a function on its keys)
    votes,        \* Wendy.votes  : Hash -> Vote
    senders,      \* Wendy.senders: ID -> Sender
    ret,          \* the last call and what it returned
    ops,          \* number of mutating calls made so far
    pcU,          \* where a running UpdateValidatorSet stands (ConcSpec)
    uvs,          \* its argument and the state it started from (ConcSpec)
    obs,          \* what an observer saw since the last write (ConcSpec)
    wasNew,       \* history: the tx hashes and the votes whose AddTx / AddVote
                  \* call returned true
    thr           \* where each calling thread stands in its locking (LockSpec)

vars == <<validators, quorum, txs, votes, senders, ret, ops, pcU, uvs, obs, wasNew,
          thr>>
wendy == <<validators, quorum, txs, votes, senders>>
conc == <<pcU, uvs, thr>>

\* --------------------------------------------------------------- map helpers
EmptyMap == [x \in {} |-> x]
Put(m, k, v) == [x \in (DOMAIN m) \cup {k} |-> IF x = k THEN v ELSE m[x]]
Without(m, ks) == [x \in (DOMAIN m) \ ks |-> m[x]]

\* ------------------------------------------------------------------- Sender
\* votes: seq -> hash (sparse), by_hash: hash -> seq, committed: hashes that
\* appeared in a committed block, committedSeqs: the seqs of the votes that
\* were moved to committed (the seq part of "votes \cup committed").
NewSender(id) ==
    [id |-> id, votes |-> EmptyMap, by_hash |-> EmptyMap,
     committed |-> {}, committedSeqs |-> {}]

\* A seq is accounted for when the sender holds a vote at it or held one that
\* has been committed.
Filled(s) == (DOMAIN s.votes) \cup s.committedSeqs

\* No seq below k is missing from the sender's log.
NoGapBelow(s, k) == \A j \in 0..(k - 1) : j \in Filled(s)

\* Sender.AddVote's result: true iff neither the seq nor the hash is present.
SenderAddVoteOk(s, v) ==
    /\ v.Seq \notin Filled(s)
    /\ v.TxHash \notin DOMAIN s.by_hash
    /\ v.TxHash \notin s.committed

\* Sender.AddVote's effect on the log: insert if new, else leave it alone.
SenderAddVote(s, v) ==
    IF SenderAddVoteOk(s, v)
    THEN [s EXCEPT !.votes = Put(s.votes, v.Seq, v.TxHash),
                   !.by_hash = Put(s.by_hash, v.TxHash, v.Seq)]
    ELSE s

\* Sender.Seen: committed, or voted with every lower seq accounted for.
Seen(s, tx) ==
    \/ Hash(tx) \in s.committed
    \/ /\ Hash(tx) \in DOMAIN s.by_hash
       /\ NoGapBelow(s, s.by_hash[Hash(tx)])

\* Sender.Before: tx1 voted gap-free, and tx2 either voted at a higher seq or
\* not reported at all.
Before(s, tx1, tx2) ==
    /\ Seen(s, tx1)
    /\ Hash(tx1) \in DOMAIN s.by_hash
    /\ Hash(tx2) \notin s.committed
    /\ Hash(tx2) \in DOMAIN s.by_hash
          => s.by_hash[Hash(tx1)] < s.by_hash[Hash(tx2)]

\* Sender.UpdateTxSet: move the listed hashes into committed.
UpdateTxSet(s, blockTxs) ==
    LET hs == {Hash(tx) : tx \in blockTxs}
        gone == {q \in DOMAIN s.votes : s.votes[q] \in hs}
    IN  [s EXCEPT !.votes = Without(s.votes, gone),
                  !.by_hash = Without(s.by_hash, hs),
                  !.committed = s.committed \cup hs,
                  !.committedSeqs = s.committedSeqs \cup gone]

\* -------------------------------------------------------------------- Wendy
\* The quorum rounded up instead of floor + 1.
QuorumOf_Ceil(n) == ((n * QuorumNum) + QuorumDen - 1) \div QuorumDen

\* floor(float64(len(vs)) * Quorum) + 1; the float product rounds to the exact
\* value for every list length a node can hold.
QuorumOf(n) == ((n * QuorumNum) \div QuorumDen) + 1

HonestParties == quorum
HonestMajority == Len(validators) - quorum

\* The loop of hasQuorum over a senders map: ok is the set of keys whose
\* sender satisfies fn, count the local "votes", q the quorum read.
RECURSIVE hasQuorumLoop(_, _, _, _)
hasQuorumLoop(rest, ok, count, q) ==
    IF rest = {} THEN FALSE
    ELSE LET k == CHOOSE x \in rest : TRUE
         IN  IF k \in ok
             THEN IF count + 1 = q THEN TRUE
                  ELSE hasQuorumLoop(rest \ {k}, ok, count + 1, q)
             ELSE hasQuorumLoop(rest \ {k}, ok, count, q)

\* hasQuorum with the threshold tested after the loop, as "at least q".
hasQuorumIn_AtLeast(q, sndrs, ok) == Cardinality(ok \cap DOMAIN sndrs) >= q

\* hasQuorum with the threshold tested before the increment (one vote late).
hasQuorumIn_Late(q, sndrs, ok) == Cardinality(ok \cap DOMAIN sndrs) > q

\* hasQuorum against a given (quorum, senders) pair.
hasQuorumIn(q, sndrs, ok) == hasQuorumLoop(DOMAIN sndrs, ok, 0, q)

\* hasQuorum counting the senders of the validator set only.
hasQuorum_ValidatorsOnly(ok) ==
    hasQuorumIn(quorum, senders, ok \cap {validators[i] : i \in DOMAIN validators})

hasQuorum(ok) == hasQuorumIn(quorum, senders, ok)

SeenBy(tx) == {k \in DOMAIN senders : Seen(senders[k], tx)}
BeforeBy(tx1, tx2) == {k \in DOMAIN senders : Before(senders[k], tx1, tx2)}

\* IsBlockedBy with the arguments of Before swapped.
IsBlockedBy_Swapped(tx1, tx2) == ~hasQuorum(BeforeBy(tx2, tx1))

IsBlockedBy(tx1, tx2) == ~hasQuorum(BeforeBy(tx1, tx2))
\* IsBlocked counting every sender that holds a vote for tx or saw it
\* committed, whatever lies below the vote.
IsBlocked_AnyVote(tx) ==
    ~hasQuorum({k \in DOMAIN senders :
                   \/ Hash(tx) \in DOMAIN senders[k].by_hash
                   \/ Hash(tx) \in senders[k].committed})

IsBlocked(tx) == ~hasQuorum(SeenBy(tx))

\* IsBlockedBy against a given pair, with the arguments of Before swapped.
IsBlockedByIn_Swapped(q, sndrs, tx1, tx2) ==
    ~hasQuorumIn(q, sndrs, {k \in DOMAIN sndrs : Before(sndrs[k], tx2, tx1)})

\* IsBlockedBy against a given (quorum, senders) pair.
IsBlockedByIn(q, sndrs, tx1, tx2) ==
    ~hasQuorumIn(q, sndrs, {k \in DOMAIN sndrs : Before(sndrs[k], tx1, tx2)})

\* IsBlocked against a given (quorum, senders) pair.
IsBlockedIn(q, sndrs, tx) ==
    ~hasQuorumIn(q, sndrs, {k \in DOMAIN sndrs : Seen(sndrs[k], tx)})

\* VoteByTxHash returning the indexed vote only while its sender's log holds
\* it.
VoteByTxHash_Held(h) ==
    IF /\ h \in DOMAIN votes
       /\ votes[h].Pubkey \in DOMAIN senders
       /\ h \in DOMAIN senders[votes[h].Pubkey].by_hash
       /\ senders[votes[h].Pubkey].by_hash[h] = votes[h].Seq
    THEN votes[h] ELSE Nil

VoteByTxHash(h) == IF h \in DOMAIN votes THEN votes[h] ELSE Nil

\* ------------------------------------------------------ blocking-set builder
\* The candidates: the pool txs that are not IsBlocked.
Candidates(q, sndrs, pool) == {tx \in pool : ~IsBlockedIn(q, sndrs, tx)}

\* The txs of cands that the txs of set are blocked by, added to set until
\* nothing is added.
RECURSIVE BlockedByClosure(_, _, _, _)
BlockedByClosure(q, sndrs, cands, set) ==
    LET more == {u \in cands : \E t \in set : IsBlockedByIn(q, sndrs, t, u)}
    IN  IF more \subseteq set THEN set
        ELSE BlockedByClosure(q, sndrs, cands, set \cup more)

\* BlockingSet() against a given (quorum, senders, pool) triple: every
\* candidate's hash, mapped to the candidate and the candidates that block it.
BlockingSetIn(q, sndrs, pool) ==
    LET cands == Candidates(q, sndrs, pool)
    IN  [h \in {Hash(tx) : tx \in cands} |->
            BlockedByClosure(q, sndrs, cands, {tx \in cands : Hash(tx) = h})]

Pool == {txs[h] : h \in DOMAIN txs}

BlockingSet == BlockingSetIn(quorum, senders, Pool)

\* len(tx.Bytes()) of the suite's txs.
BytesLen(tx) ==
    CASE tx.bytes \in {"tx0", "tx1", "tx2", "tx3", "tx4", "tx5"} -> 3
      [] tx.bytes = "tx-gapped" -> 9

\* The order txs are selected in: by hash, bytewise.
HashOrder == <<"h0", "h1", "h2", "h3", "h4", "h5", "hash-gapped">>
RankOf(h) == CHOOSE i \in 1..Len(HashOrder) : HashOrder[i] = h

\* The union of all values of a blocking set, each tx once.
UnionOf(set) == UNION {set[h] : h \in DOMAIN set}

\* NewBlockOptions; 0 (the zero value) is no limit.
NoLimits == [TxLimit |-> 0, MaxBlockSize |-> 0]

\* Selection without the size cap.
RECURSIVE SelectTxs_NoCap(_, _, _, _)
SelectTxs_NoCap(rest, opts, acc, size) ==
    IF rest = {} THEN acc
    ELSE LET tx == CHOOSE t \in rest :
                       \A u \in rest : RankOf(Hash(t)) <= RankOf(Hash(u))
         IN  IF opts.TxLimit > 0 /\ Len(acc) = opts.TxLimit THEN acc
             ELSE SelectTxs_NoCap(rest \ {tx}, opts, Append(acc, tx),
                                  size + BytesLen(tx))

\* Take txs in order until the count limit is reached or the next tx would
\* exceed the size cap.
RECURSIVE SelectTxs(_, _, _, _)
SelectTxs(rest, opts, acc, size) ==
    IF rest = {} THEN acc
    ELSE LET tx == CHOOSE t \in rest :
                       \A u \in rest : RankOf(Hash(t)) <= RankOf(Hash(u))
         IN  IF opts.TxLimit > 0 /\ Len(acc) = opts.TxLimit THEN acc
             ELSE IF /\ opts.MaxBlockSize > 0
                     /\ size + BytesLen(tx) > opts.MaxBlockSize THEN acc
             ELSE SelectTxs(rest \ {tx}, opts, Append(acc, tx),
                            size + BytesLen(tx))

NewBlockWithOptions(set, opts) == [Txs |-> SelectTxs(UnionOf(set), opts, <<>>, 0)]
NewBlock(set) == NewBlockWithOptions(set, NoLimits)

\* The validator lists handed to UpdateValidatorSet: the first n keys of the
\* suite, n = 0..4 (validators join and leave at the end of the list).
Range(seq) == {seq[i] : i \in DOMAIN seq}
ValidatorLists == {SubSeq(AllValidators, 1, n) : n \in 0..Len(AllValidators)}

Blocks == SUBSET Txs

\* --------------------------------------------------------------- operations
Init ==
    /\ validators = <<>>
    /\ quorum = 0
    /\ txs = EmptyMap
    /\ votes = EmptyMap
    /\ senders = EmptyMap
    /\ ret = [op |-> "New", result |-> Nil]
    /\ ops = 0
    /\ pcU = "idle"
    /\ uvs = Nil
    /\ obs = NoObs
    /\ wasNew = [txs |-> {}, votes |-> {}]
    /\ thr = [t \in Threads |-> Idle]

\* UpdateValidatorSet giving every validator a new sender.
RebuiltSenders_AllNew(vs) == [k \in Range(vs) |-> NewSender(k)]

\* UpdateValidatorSet keeping the senders that vs does not list.
RebuiltSenders_KeepAll(vs) ==
    [k \in Range(vs) \cup DOMAIN senders |->
        IF k \in DOMAIN senders THEN senders[k] ELSE NewSender(k)]

\* The senders map UpdateValidatorSet builds from the current one.
RebuiltSenders(vs) ==
    [k \in Range(vs) |-> IF k \in DOMAIN senders THEN senders[k] ELSE NewSender(k)]

UpdateValidatorSet(vs) ==
    /\ ops < MaxOps
    /\ pcU = "idle"
    /\ validators' = vs
    /\ quorum' = QuorumOf(Len(vs))
    /\ senders' = RebuiltSenders(vs)
    /\ ret' = [op |-> "UpdateValidatorSet", result |-> Nil]
    /\ ops' = ops + 1
    /\ obs' = NoObs
    /\ UNCHANGED <<txs, votes, conc, wasNew>>

\* AddTx storing the tx and reporting it new whether or not the pool has it.
AddTx_Overwrite(tx) ==
    /\ ops < MaxOps
    /\ txs' = Put(txs, Hash(tx), tx)
    /\ ret' = [op |-> "AddTx", result |-> TRUE]
    /\ ops' = ops + 1
    /\ obs' = NoObs
    /\ wasNew' = [wasNew EXCEPT !.txs = @ \cup {Hash(tx)}]
    /\ UNCHANGED <<validators, quorum, votes, senders, conc>>

AddTx(tx) ==
    /\ ops < MaxOps
    /\ txs' = IF Hash(tx) \in DOMAIN txs THEN txs ELSE Put(txs, Hash(tx), tx)
    /\ ret' = [op |-> "AddTx", result |-> Hash(tx) \notin DOMAIN txs]
    /\ ops' = ops + 1
    /\ obs' = NoObs
    /\ wasNew' = IF Hash(tx) \in DOMAIN txs THEN wasNew
                 ELSE [wasNew EXCEPT !.txs = @ \cup {Hash(tx)}]
    /\ UNCHANGED <<validators, quorum, votes, senders, conc>>

\* AddVote always starting a new sender, without the lookup.
SenderFor_AlwaysNew(v) == NewSender(v.Pubkey)

\* The sender AddVote routes to in a senders map: the one registered, else a
\* new one.
SenderForIn(sndrs, v) ==
    IF v.Pubkey \in DOMAIN sndrs THEN sndrs[v.Pubkey] ELSE NewSender(v.Pubkey)

SenderFor(v) == SenderForIn(senders, v)

AddVote(v) ==
    /\ ops < MaxOps
    /\ senders' = Put(senders, v.Pubkey, SenderAddVote(SenderFor(v), v))
    /\ votes' = Put(votes, v.TxHash, v)
    /\ ret' = [op |-> "AddVote", result |-> SenderAddVoteOk(SenderFor(v), v)]
    /\ ops' = ops + 1
    /\ obs' = NoObs
    /\ wasNew' = IF SenderAddVoteOk(SenderFor(v), v)
                 THEN [wasNew EXCEPT !.votes = @ \cup {v}]
                 ELSE wasNew
    /\ UNCHANGED <<validators, quorum, txs, conc>>

\* CommitBlock updating the validators' senders only.
CommittedSenders_ValidatorsOnly(blockTxs) ==
    [k \in DOMAIN senders |->
        IF k \in Range(validators) THEN UpdateTxSet(senders[k], blockTxs)
        ELSE senders[k]]

\* CommitBlock's loop: UpdateTxSet on every sender of the map.
CommittedSenders(blockTxs) ==
    [k \in DOMAIN senders |-> UpdateTxSet(senders[k], blockTxs)]

CommitBlock(blockTxs) ==
    /\ ops < MaxOps
    /\ senders' = CommittedSenders(blockTxs)
    /\ ret' = [op |-> "CommitBlock", result |-> Nil]
    /\ ops' = ops + 1
    /\ obs' = NoObs
    /\ UNCHANGED <<validators, quorum, txs, votes, conc, wasNew>>

Next ==
    \/ \E vs \in ValidatorLists : UpdateValidatorSet(vs)
    \/ \E tx \in Txs : AddTx(tx)
    \/ \E v \in Votes : AddVote(v)
    \/ \E b \in Blocks : CommitBlock(b)

Spec == Init /\ [][Next]_vars

\* ------------------------------------------------- concurrent callers (ConcSpec)
\* UpdateValidatorSet assigns w.validators and w.quorum before it takes
\* votesMtx; each assignment is a step other callers can interleave with.
\* The calls that hold a mutex for their whole body stay single steps.

\* line 32: w.validators = vs
UVS_SetValidators(vs) ==
    /\ ops < MaxOps
    /\ pcU = "idle"
    /\ validators' = vs
    /\ uvs' = [vs |-> vs, validators |-> validators, quorum |-> quorum]
    /\ pcU' = "l34"
    /\ ops' = ops + 1
    /\ obs' = NoObs
    /\ UNCHANGED <<quorum, txs, votes, senders, ret, wasNew, thr>>

\* lines 34-37: w.quorum = int(floor(len(vs) * Quorum) + 1)
UVS_SetQuorum ==
    /\ pcU = "l34"
    /\ quorum' = QuorumOf(Len(uvs.vs))
    /\ pcU' = "l39"
    /\ obs' = NoObs
    /\ UNCHANGED <<validators, txs, votes, senders, ret, ops, uvs, wasNew, thr>>

\* lines 39-52: under votesMtx, rebuild w.senders
UVS_Rebuild ==
    /\ pcU = "l39"
    /\ senders' = RebuiltSenders(uvs.vs)
    /\ pcU' = "idle"
    /\ uvs' = Nil
    /\ ret' = [op |-> "UpdateValidatorSet", result |-> Nil]
    /\ obs' = NoObs
    /\ UNCHANGED <<validators, quorum, txs, votes, ops, wasNew, thr>>

\* The state an observer would see had the running UpdateValidatorSet not
\* started yet, and the one it would see had it returned.
OldQuorum == IF pcU = "idle" THEN quorum ELSE uvs.quorum
OldValidators == IF pcU = "idle" THEN validators ELSE uvs.validators
NewQuorum == IF pcU = "idle" THEN quorum ELSE QuorumOf(Len(uvs.vs))
NewValidators == IF pcU = "idle" THEN validators ELSE uvs.vs
NewSenders == IF pcU = "idle" THEN senders ELSE RebuiltSenders(uvs.vs)

\* An observer calls IsBlocked(tx) while UpdateValidatorSet runs: hasQuorum
\* under the read lock, which the updater does not hold before line 39.
ObserveIsBlocked(tx) ==
    /\ pcU # "idle"
    /\ obs' = [call |-> "IsBlocked",
               result |-> IsBlocked(tx),
               old |-> IsBlockedIn(OldQuorum, senders, tx),
               new |-> IsBlockedIn(NewQuorum, NewSenders, tx)]
    /\ UNCHANGED <<wendy, ret, ops, pcU, uvs, wasNew, thr>>

\* An observer calls HonestMajority() while UpdateValidatorSet runs: no lock.
ObserveHonestMajority ==
    /\ pcU # "idle"
    /\ obs' = [call |-> "HonestMajority",
               result |-> HonestMajority,
               old |-> Len(OldValidators) - OldQuorum,
               new |-> Len(NewValidators) - NewQuorum]
    /\ UNCHANGED <<wendy, ret, ops, pcU, uvs, wasNew, thr>>

ConcNext ==
    \/ \E vs \in ValidatorLists : UVS_SetValidators(vs)
    \/ UVS_SetQuorum
    \/ UVS_Rebuild
    \/ \E tx \in Txs : AddTx(tx)
    \/ \E v \in Votes : AddVote(v)
    \/ \E b \in Blocks : CommitBlock(b)
    \/ \E tx \in Txs : ObserveIsBlocked(tx)
    \/ ObserveHonestMajority

ConcSpec == Init /\ [][ConcNext]_vars

\* ------------------------------------------------------- lock protocol (LockSpec)
\* Every exported call takes its mutex first and releases it by a deferred
\* unlock when it returns; between the two it runs loops over the finite maps
\* and takes no other lock. LockSpec follows each goroutine through the lock
\* operations of the call it is in; the maps themselves are left as they are.
LockOps == {"AddTx", "AddVote", "CommitBlock", "UpdateValidatorSet",
            "VoteByTxHash", "IsBlocked", "IsBlockedBy", "BlockingSet"}

LockStep(do, m) == [do |-> do, mtx |-> m]

\* mtx.Lock(); defer mtx.Unlock()
Writes(m) == <<LockStep("Lock", m), LockStep("Unlock", m)>>
\* mtx.RLock(); defer mtx.RUnlock()
Reads(m) == <<LockStep("RLock", m), LockStep("RUnlock", m)>>

\* BlockingSet reads the pool under the txs read lock and evaluates the
\* predicates over it, each of them a hasQuorum call under the votes read
\* lock.
BlockingSetPlan ==
    <<LockStep("RLock", "txsMtx")>> \o Reads("votesMtx") \o Reads("votesMtx")
        \o <<LockStep("RUnlock", "txsMtx")>>

\* hasQuorum taking the read lock again inside the predicate it evaluates.
LockPlan_Nested(op) ==
    CASE op = "AddTx" -> Writes("txsMtx")
      [] op \in {"AddVote", "CommitBlock", "UpdateValidatorSet"} -> Writes("votesMtx")
      [] op = "VoteByTxHash" -> Reads("votesMtx")
      [] op \in {"IsBlocked", "IsBlockedBy"} ->
            <<LockStep("RLock", "votesMtx")>> \o Reads("votesMtx")
                \o <<LockStep("RUnlock", "votesMtx")>>
      [] op = "BlockingSet" -> BlockingSetPlan

\* The lock operations of a call, in the order it makes them.
LockPlan(op) ==
    CASE op = "AddTx" -> Writes("txsMtx")
      [] op \in {"AddVote", "CommitBlock", "UpdateValidatorSet"} -> Writes("votesMtx")
      [] op \in {"VoteByTxHash", "IsBlocked", "IsBlockedBy"} -> Reads("votesMtx")
      [] op = "BlockingSet" -> BlockingSetPlan

PlanOf(t) == IF thr[t].op = "none" THEN <<>> ELSE LockPlan(thr[t].op)

\* Goroutine t is about to make the lock operation do on m.
AtStep(t, do, m) ==
    /\ thr[t].at \in DOMAIN PlanOf(t)
    /\ PlanOf(t)[thr[t].at] = LockStep(do, m)

\* How often t has made it in the call it is in.
Taken(t, do, m) ==
    Cardinality({i \in 1..(thr[t].at - 1) : PlanOf(t)[i] = LockStep(do, m)})

HoldsRead(t, m) == Taken(t, "RLock", m) > Taken(t, "RUnlock", m)
HoldsWrite(t, m) == Taken(t, "Lock", m) > Taken(t, "Unlock", m)

\* sync.RWMutex: a writer first takes the mutex writers share, announces
\* itself and waits for the readers that hold the lock to leave; a reader that
\* arrives while a writer is announced or holds the lock is parked until that
\* writer unlocks.
Announced(t, m) == AtStep(t, "Lock", m) /\ thr[t].phase = "announced"
Parked(t, m) == AtStep(t, "RLock", m) /\ thr[t].phase = "parked"
WriterPending(m) == \E t \in Threads : Announced(t, m) \/ HoldsWrite(t, m)

Advance(t) == [thr[t] EXCEPT !.at = @ + 1, !.phase = "call"]

data == <<wendy, ret, ops, pcU, uvs, obs, wasNew>>

\* A goroutine enters a call.
Call(t, op) ==
    /\ thr[t].op = "none"
    /\ thr' = [thr EXCEPT ![t] = [op |-> op, at |-> 1, phase |-> "call"]]
    /\ UNCHANGED data

\* Lock(): take the writers' mutex and announce.
Lock(t) ==
    /\ \E m \in Mutexes :
          /\ AtStep(t, "Lock", m)
          /\ thr[t].phase = "call"
          /\ ~WriterPending(m)
    /\ thr' = [thr EXCEPT ![t].phase = "announced"]
    /\ UNCHANGED data

\* Lock() returns once no reader holds the lock.
LockAcquire(t) ==
    /\ \E m \in Mutexes :
          /\ Announced(t, m)
          /\ \A u \in Threads : ~HoldsRead(u, m)
    /\ thr' = [thr EXCEPT ![t] = Advance(t)]
    /\ UNCHANGED data

\* RLock(): returns at once, or parks behind a writer.
RLock(t) ==
    /\ \E m \in Mutexes :
          /\ AtStep(t, "RLock", m)
          /\ thr[t].phase = "call"
          /\ thr' = [thr EXCEPT ![t] =
                        IF WriterPending(m)
                        THEN [thr[t] EXCEPT !.phase = "parked"]
                        ELSE Advance(t)]
    /\ UNCHANGED data

\* The deferred Unlock(): the parked readers get the lock, then the writers'
\* mutex is released.
Unlock(t) ==
    /\ \E m \in Mutexes :
          /\ AtStep(t, "Unlock", m)
          /\ thr' = [u \in Threads |->
                        IF u = t \/ Parked(u, m) THEN Advance(u) ELSE thr[u]]
    /\ UNCHANGED data

\* The deferred RUnlock().
RUnlock(t) ==
    /\ \E m \in Mutexes : AtStep(t, "RUnlock", m)
    /\ thr' = [thr EXCEPT ![t] = Advance(t)]
    /\ UNCHANGED data

\* The call returns to its caller.
Return(t) ==
    /\ thr[t].op # "none"
    /\ thr[t].at = Len(PlanOf(t)) + 1
    /\ thr' = [thr EXCEPT ![t] = Idle]
    /\ UNCHANGED data

LockNext ==
    \E t \in Threads :
        \/ \E op \in LockOps : Call(t, op)
        \/ Lock(t)
        \/ LockAcquire(t)
        \/ RLock(t)
        \/ Unlock(t)
        \/ RUnlock(t)
        \/ Return(t)

\* A goroutine that can run does run. A goroutine waiting for the writers'
\* mutex gets it although other writers keep taking it: sync.Mutex hands the
\* mutex over to a waiter that has been starving.
LockFairness ==
    \A t \in Threads :
        /\ SF_vars(Lock(t))
        /\ WF_vars(LockAcquire(t))
        /\ WF_vars(RLock(t))
        /\ WF_vars(Unlock(t))
        /\ WF_vars(RUnlock(t))
        /\ WF_vars(Return(t))

LockSpec == Init /\ [][LockNext]_vars /\ LockFairness

\* ------------------------------------------------------- the suite's scenarios
\* The senders map after a list of AddVote calls on a given map.
RECURSIVE AfterVotes(_, _)
AfterVotes(sndrs, vlist) ==
    IF vlist = <<>> THEN sndrs
    ELSE LET v == Head(vlist)
         IN  AfterVotes(Put(sndrs, v.Pubkey, SenderAddVote(SenderForIn(sndrs, v), v)),
                        Tail(vlist))

\* UpdateValidatorSet(pub0..pub3) on a new Wendy.
FourSenders == [k \in Range(AllValidators) |-> NewSender(k)]

\* TestIsBlocked: three validators vote testTx0 at seq 0, then the gapped tx
\* at seq 2.
gappedTx == [bytes |-> "tx-gapped", hash |-> "hash-gapped"]
TestIsBlockedVotes ==
    << newVote(pub0, 0, testTx0), newVote(pub1, 0, testTx0),
       newVote(pub2, 0, testTx0), newVote(pub0, 2, gappedTx),
       newVote(pub1, 2, gappedTx), newVote(pub2, 2, gappedTx) >>

\* TestIsBlockedBy: pub0, pub1, pub2 vote testTx0 at seq 0 and testTx1 at
\* seq 1; then pub2 votes them in the other order at the same seqs.
TestIsBlockedByVotes ==
    << newVote(pub0, 0, testTx0), newVote(pub0, 1, testTx1),
       newVote(pub1, 0, testTx0), newVote(pub1, 1, testTx1),
       newVote(pub2, 0, testTx0), newVote(pub2, 1, testTx1),
       newVote(pub2, 0, testTx1), newVote(pub2, 1, testTx0) >>

\* The txs and nodes of TestBlockingSet.
testTx2 == [bytes |-> "tx2", hash |-> "h2"]
testTx3 == [bytes |-> "tx3", hash |-> "h3"]
testTx4 == [bytes |-> "tx4", hash |-> "h4"]
testTx5 == [bytes |-> "tx5", hash |-> "h5"]
FiveTxs == <<testTx1, testTx2, testTx3, testTx4, testTx5>>

\* newWendyFromTxsMap: the keys of the map as validator set, every node's
\* txs voted at seq 0, 1, ... and added to the pool.
newWendyFromTxsMap(txsMap) ==
    LET nodes == DOMAIN txsMap
        new == [k \in nodes |-> NewSender(k)]
        votesOf(k) == [i \in 1..Len(txsMap[k]) |-> newVote(k, i - 1, txsMap[k][i])]
    IN  [quorum |-> QuorumOf(Cardinality(nodes)),
         senders |-> [k \in nodes |-> AfterVotes(new, votesOf(k))[k]],
         txs |-> UNION {Range(txsMap[k]) : k \in nodes}]

\* TestBlockingSet/FairnessLoop: node n votes the five txs rotated by n.
FairnessLoopMap ==
    [k \in {"0x00", "0x01", "0x02", "0x03", "0x04"} |->
        CASE k = "0x00" -> <<testTx1, testTx2, testTx3, testTx4, testTx5>>
          [] k = "0x01" -> <<testTx2, testTx3, testTx4, testTx5, testTx1>>
          [] k = "0x02" -> <<testTx3, testTx4, testTx5, testTx1, testTx2>>
          [] k = "0x03" -> <<testTx4, testTx5, testTx1, testTx2, testTx3>>
          [] k = "0x04" -> <<testTx5, testTx1, testTx2, testTx3, testTx4>>]

\* TestBlockingSet/FullyAgree: every node votes the five txs in one order.
FullyAgreeMap == [k \in DOMAIN FairnessLoopMap |-> FiveTxs]

\* The Wendy of each scenario and its BlockingSet().
FairnessLoopWendy == newWendyFromTxsMap(FairnessLoopMap)
FairnessLoopSet ==
    BlockingSetIn(FairnessLoopWendy.quorum, FairnessLoopWendy.senders,
                  FairnessLoopWendy.txs)
\* IsBlockedBy(tx_i, tx_{i+1 mod 5}) (fwd) and IsBlockedBy(tx_{i+1 mod 5},
\* tx_i) (back) on the Wendy of FairnessLoop.
RotationBlockedBy ==
    [i \in 1..5 |->
        [fwd |-> IsBlockedByIn(FairnessLoopWendy.quorum, FairnessLoopWendy.senders,
                               FiveTxs[i], FiveTxs[(i % 5) + 1]),
         back |-> IsBlockedByIn(FairnessLoopWendy.quorum, FairnessLoopWendy.senders,
                                FiveTxs[(i % 5) + 1], FiveTxs[i])]]
FullyAgreeWendy == newWendyFromTxsMap(FullyAgreeMap)
FullyAgreeSet ==
    BlockingSetIn(FullyAgreeWendy.quorum, FullyAgreeWendy.senders,
                  FullyAgreeWendy.txs)

\* The senders of TestIsBlocked at its end, and of TestIsBlockedBy after its
\* first n AddVote calls.
TestIsBlockedSenders == AfterVotes(FourSenders, TestIsBlockedVotes)
TestIsBlockedBySenders ==
    [n \in 0..Len(TestIsBlockedByVotes) |->
        AfterVotes(FourSenders, SubSeq(TestIsBlockedByVotes, 1, n))]

\* TestBlockingSet/NewBlock: the blocking set and the options it is called
\* with (and a cap below one tx, a limit of one).
TestNewBlockSet ==
    [h \in {"h0", "h1", "h4"} |->
        CASE h = "h0" -> {testTx0}
          [] h = "h1" -> {testTx1, testTx0}
          [] h = "h4" -> {testTx4, testTx3}]
BlockOptions == [TxLimit : {0, 1, 3}, MaxBlockSize : {0, 2, 10}]

\* =================================================================== claims

C3_Monotone ==
    /\ \A n \in 6..8 :
          ~IsBlockedByIn(QuorumOf(4), TestIsBlockedBySenders[n], testTx0, testTx1)
    /\ [][\A a \in Txs, b \in Txs :
              (ret'.op = "AddVote" /\ ~IsBlockedBy(a, b))
                  => (~IsBlockedBy(a, b))']_vars

\* IsBlockedBy(a, b) is false with a quorum of 2 or more, a sender reports b
\* but not a before it, and the last call was an AddVote.
C3_Witness ==
    /\ quorum >= 2
    /\ ret.op = "AddVote"
    /\ \E a \in Txs, b \in Txs :
          /\ a # b
          /\ ~IsBlockedBy(a, b)
          /\ \E k \in DOMAIN senders : Before(senders[k], b, a)

\* C4: UpdateValidatorSet is atomic for concurrent observers. Every IsBlocked
\* or HonestMajority call made while an UpdateValidatorSet runs returns what
\* it would return either on the (validators, quorum, senders) triple from
\* before that call or on the triple after it, never on a mixture.
C4_Atomic ==
    obs.call # "none" => (obs.result = obs.old \/ obs.result = obs.new)

\* A sender holds a vote for tx above a seq it has no entry for.
Gapped(s, tx) ==
    /\ Hash(tx) \in DOMAIN s.by_hash
    /\ \E j \in 0..(s.by_hash[Hash(tx)] - 1) :
          j \notin DOMAIN s.votes /\ j \notin s.committedSeqs

\* The senders that hold a vote for tx.
Holders(tx) == {k \in DOMAIN senders : Hash(tx) \in DOMAIN senders[k].by_hash}

\* C5: gap test. A sender whose log has an unfilled seq below its vote for tx
\* does not count toward the quorum of IsBlocked(tx): when fewer than quorum
\* senders hold tx without such a gap (or saw it committed), IsBlocked(tx) is
\* true, however many gapped senders hold it. With 4 validators, after three
\* of them voted another tx at seq 0 and tx at seq 2, IsBlocked(tx) is true.
C5_GapNotCounted ==
    /\ \A tx \in Txs :
          Cardinality({k \in DOMAIN senders :
                          \/ Hash(tx) \in senders[k].committed
                          \/ k \in Holders(tx) /\ ~Gapped(senders[k], tx)}) < quorum
              => IsBlocked(tx)
    /\ \A k \in {pub0, pub1, pub2} :
          TestIsBlockedSenders[k].by_hash[Hash(gappedTx)] = 2
    /\ IsBlockedIn(QuorumOf(4), TestIsBlockedSenders, gappedTx)
    /\ ~IsBlockedIn(QuorumOf(4), TestIsBlockedSenders, testTx0)

\* 4 validators, quorum 3: three senders hold a vote for tx, each above an
\* unfilled seq, and tx is blocked.
C5_Witness ==
    /\ Len(validators) = 4
    /\ quorum = 3
    /\ \E tx \in Txs :
          /\ Cardinality(Holders(tx)) >= quorum
          /\ \A k \in Holders(tx) : Gapped(senders[k], tx)
          /\ IsBlocked(tx)

\* C6: commit pruning. After CommitBlock(B), for every tx of B and every
\* sender of the senders map, Seen(tx) is true and tx's hash is in neither
\* the sender's votes nor its by_hash.
C6_CommitPruning ==
    [][\A b \in Blocks :
          CommitBlock(b) =>
              \A tx \in b : \A k \in DOMAIN senders' :
                  /\ Seen(senders'[k], tx)
                  /\ Hash(tx) \in senders'[k].committed
                  /\ Hash(tx) \notin DOMAIN senders'[k].by_hash
                  /\ \A q \in DOMAIN senders'[k].votes :
                        senders'[k].votes[q] # Hash(tx)]_vars

\* A CommitBlock has just pruned a vote from one sender's log, and marked the
\* tx committed on a sender that never voted for it.
C6_Witness ==
    /\ ret.op = "CommitBlock"
    /\ \E k \in DOMAIN senders : senders[k].committedSeqs # {}
    /\ \E k \in DOMAIN senders \ Range(validators) :
          senders[k].committed # {} /\ senders[k].committedSeqs = {}

\* C7: after CommitBlock(B), no tx of B is still in the txs pool.
C7_PoolPruned ==
    [][\A b \in Blocks :
          CommitBlock(b) => \A tx \in b : Hash(tx) \notin DOMAIN txs']_vars

\* C8: after UpdateValidatorSet(vs) the keys of senders are exactly the IDs of
\* vs; a key that was in the senders map keeps its sender and vote log, a new
\* key gets an empty log, every other sender is gone.
C8_Retention ==
    [][\A vs \in ValidatorLists :
          UpdateValidatorSet(vs) =>
              /\ DOMAIN senders' = Range(vs)
              /\ \A k \in Range(vs) \cap DOMAIN senders :
                    senders'[k] = senders[k]
              /\ \A k \in Range(vs) \ DOMAIN senders :
                    /\ senders'[k].id = k
                    /\ DOMAIN senders'[k].votes = {}
                    /\ DOMAIN senders'[k].by_hash = {}
                    /\ senders'[k].committed = {}]_vars

\* An UpdateValidatorSet has just kept a sender with votes, added one with an
\* empty log, and dropped one whose vote the votes index still shows.
C8_Witness ==
    /\ ret.op = "UpdateValidatorSet"
    /\ \E k \in DOMAIN senders : DOMAIN senders[k].votes # {}
    /\ \E k \in DOMAIN senders : DOMAIN senders[k].votes = {}
    /\ \E h \in DOMAIN votes : votes[h].Pubkey \notin DOMAIN senders

\* C9: quorum recomputation. After every UpdateValidatorSet(vs),
\* HonestParties() is floor(|vs| * 2/3) + 1, the q with
\* 3 (q - 1) <= 2 |vs| < 3 q (3 for 4 validators, 4 for 5), and no other
\* call changes it.
C9_QuorumRecomputed ==
    [][/\ \A vs \in ValidatorLists :
             UpdateValidatorSet(vs) =>
                 /\ 3 * (HonestParties' - 1) <= 2 * Len(vs)
                 /\ 2 * Len(vs) < 3 * HonestParties'
                 /\ Len(vs) = 4 => HonestParties' = 3
       /\ ret'.op # "UpdateValidatorSet" => HonestParties' = HonestParties
       /\ QuorumOf(4) = 3 /\ QuorumOf(5) = 4]_vars

\* UpdateValidatorSet has just installed 4 validators over a smaller set, and
\* HonestParties() is 3.
C9_Witness ==
    /\ ret.op = "UpdateValidatorSet"
    /\ Len(validators) = 4
    /\ HonestParties = 3
    /\ ops >= 2

HashOnce(s) ==
    /\ \A q1 \in DOMAIN s.votes, q2 \in DOMAIN s.votes :
          s.votes[q1] = s.votes[q2] => q1 = q2
    /\ \A h \in DOMAIN s.by_hash :
          s.by_hash[h] \in DOMAIN s.votes /\ s.votes[s.by_hash[h]] = h
    /\ \A q \in DOMAIN s.votes :
          s.votes[q] \in DOMAIN s.by_hash /\ s.by_hash[s.votes[q]] = q

\* The vote asserts a seq the sender holds with another hash.
Equivocates(s, v) == v.Seq \in DOMAIN s.votes /\ s.votes[v.Seq] # v.TxHash

\* The vote asserts a hash the sender holds at another seq.
Revotes(s, v) == v.TxHash \in DOMAIN s.by_hash /\ s.by_hash[v.TxHash] # v.Seq

HeldBy(sndrs, v) ==
    /\ v.Pubkey \in DOMAIN sndrs
    /\ v.Seq \in DOMAIN sndrs[v.Pubkey].votes
    /\ sndrs[v.Pubkey].votes[v.Seq] = v.TxHash

C13_AdHocSender ==
    [][/\ \A v \in Votes :
             (/\ ret'.op = "AddVote"
              /\ v.Pubkey \notin Range(validators)
              /\ AddVote(v))
                 => /\ DOMAIN senders' = DOMAIN senders \cup {v.Pubkey}
                    /\ senders'[v.Pubkey].id = v.Pubkey
                    /\ ret'.result \in BOOLEAN
                    /\ v.Pubkey \notin DOMAIN senders =>
                          /\ ret'.result
                          /\ DOMAIN senders'[v.Pubkey].votes = {v.Seq}
                          /\ DOMAIN senders'[v.Pubkey].by_hash = {v.TxHash}
                    /\ (v.Pubkey \in DOMAIN senders
                           /\ v.Seq \notin Filled(senders[v.Pubkey])
                           /\ v.TxHash \notin DOMAIN senders[v.Pubkey].by_hash
                           /\ v.TxHash \notin senders[v.Pubkey].committed)
                          => ret'.result
                    /\ ret'.result => HeldBy(senders', v)
       /\ \A vs \in ValidatorLists :
             (ret'.op = "UpdateValidatorSet" /\ UpdateValidatorSet(vs))
                 => \A k \in DOMAIN senders \ Range(vs) :
                       /\ k \notin DOMAIN senders'
                       /\ \A v \in Votes : v.Pubkey = k => ~HeldBy(senders', v)
                       /\ \A tx \in Txs : k \notin SeenBy(tx)'
      ]_vars

\* A vote was added to a new Wendy (no validators: an ad hoc sender) and
\* returned true; the UpdateValidatorSet that followed installed validators,
\* the vote's pubkey not among them, and the sender is gone.
C13_Witness ==
    /\ ops = 2
    /\ ret.op = "UpdateValidatorSet"
    /\ Len(validators) >= 1
    /\ \E v \in wasNew.votes : v.Pubkey \notin DOMAIN senders

\* C14: VoteByTxHash(h) is nil on a new Wendy; an AddVote(v) makes
\* VoteByTxHash(v.TxHash) return v, whatever the sender answered, and leaves
\* the lookup of every other hash as it was; no other call changes any
\* lookup. So VoteByTxHash(h) is nil iff no AddVote with hash h was ever
\* called, and else the vote of the most recent one.
C14_LatestWriter ==
    /\ \A h \in Hashes : VoteByTxHash(h) = Nil
    /\ [][/\ \A v \in Votes :
                (ret'.op = "AddVote" /\ AddVote(v))
                    => /\ VoteByTxHash(v.TxHash)' = v
                       /\ \A h \in Hashes \ {v.TxHash} :
                             VoteByTxHash(h)' = VoteByTxHash(h)
          /\ ret'.op # "AddVote" =>
                \A h \in Hashes : VoteByTxHash(h)' = VoteByTxHash(h)
         ]_vars

\* The last AddVote was rejected by its sender, yet the lookup of its hash
\* returns it (it never returned true), replacing an accepted vote; the
\* lookup of the other hash is still nil.
C14_Witness ==
    /\ ret.op = "AddVote"
    /\ ret.result = FALSE
    /\ \E h \in Hashes :
          /\ VoteByTxHash(h) \in Votes \ wasNew.votes
          /\ \E v \in wasNew.votes : v.TxHash = h
          /\ \A g \in Hashes \ {h} : VoteByTxHash(g) = Nil

\* C15: BlockingSet() has exactly the hashes of the pool txs that are not
\* IsBlocked as keys, and maps each to the set of candidates that holds the
\* tx and, with a tx it holds, every candidate that tx IsBlockedBy. In the
\* rotation of TestBlockingSet/FairnessLoop, IsBlockedBy(tx_{i+1}, tx_i) is
\* true and every tx maps to all five; when the five nodes vote tx1..tx5 in
\* one order, tx_k maps to {tx_1..tx_k}.
C15_BlockingSet ==
    /\ DOMAIN BlockingSet = {Hash(tx) : tx \in {t \in Pool : ~IsBlocked(t)}}
    /\ \A h \in DOMAIN BlockingSet :
          /\ txs[h] \in BlockingSet[h]
          /\ \A t \in BlockingSet[h] :
                /\ t \in Pool /\ ~IsBlocked(t)
                /\ \A u \in Pool :
                      (~IsBlocked(u) /\ IsBlockedBy(t, u)) => u \in BlockingSet[h]
    /\ FairnessLoopWendy.quorum = 4
    /\ \A i \in 1..5 : RotationBlockedBy[i].back
    /\ DOMAIN FairnessLoopSet = {Hash(tx) : tx \in Range(FiveTxs)}
    /\ \A tx \in Range(FiveTxs) : FairnessLoopSet[Hash(tx)] = Range(FiveTxs)
    /\ DOMAIN FullyAgreeSet = {Hash(tx) : tx \in Range(FiveTxs)}
    /\ \A k \in 1..5 : FullyAgreeSet[Hash(FiveTxs[k])] = {FiveTxs[j] : j \in 1..k}

\* Both txs are in the pool; one has its quorum of votes and is a key of the
\* blocking set, mapped to itself, the other is still blocked and is no key.
C15_Witness ==
    /\ Cardinality(DOMAIN txs) = 2
    /\ quorum >= 1
    /\ \E tx \in Txs :
          /\ DOMAIN BlockingSet = {Hash(tx)}
          /\ BlockingSet[Hash(tx)] = {tx}

\* The summed len(tx.Bytes()) of a list of txs.
RECURSIVE SumBytes(_)
SumBytes(list) ==
    IF list = <<>> THEN 0 ELSE BytesLen(Head(list)) + SumBytes(Tail(list))

Min(a, b) == IF a <= b THEN a ELSE b

\* What C16 says of the blocks built from one blocking set.
HonoursLimits(set) ==
    \A opts \in BlockOptions :
        LET b == NewBlockWithOptions(set, opts).Txs
            union == UnionOf(set)
        IN  /\ Range(b) \subseteq union
            /\ Cardinality(Range(b)) = Len(b)
            /\ opts = NoLimits => Range(b) = union
            /\ (opts.TxLimit > 0 /\ opts.MaxBlockSize = 0)
                  => Len(b) = Min(opts.TxLimit, Cardinality(union))
            /\ opts.TxLimit > 0 => Len(b) <= opts.TxLimit
            /\ opts.MaxBlockSize > 0 => SumBytes(b) <= opts.MaxBlockSize

\* TestBlockingSet/NewBlock: all four txs without limits, three with
\* TxLimit 3, at most 10 bytes with MaxBlockSize 10.
TestNewBlockHolds ==
    /\ HonoursLimits(TestNewBlockSet)
    /\ Range(NewBlock(TestNewBlockSet).Txs) = {testTx0, testTx1, testTx3, testTx4}
    /\ Len(NewBlockWithOptions(TestNewBlockSet,
                               [TxLimit |-> 3, MaxBlockSize |-> 0]).Txs) = 3
    /\ SumBytes(NewBlockWithOptions(TestNewBlockSet,
                                    [TxLimit |-> 0, MaxBlockSize |-> 10]).Txs) <= 10

C17_HonestMajority ==
    ret.op = "UpdateValidatorSet" =>
        LET n == Len(validators)
            t == HonestParties - 1
        IN  /\ t = (n * QuorumNum) \div QuorumDen
            /\ HonestMajority = n - t
            /\ n >= (3 * t) + 1 => HonestMajority >= (2 * t) + 1

\* The senders of the rotation that report tx_i before tx_j.
RotationBefore(i, j) ==
    {k \in DOMAIN FairnessLoopWendy.senders :
        Before(FairnessLoopWendy.senders[k], FiveTxs[i], FiveTxs[j])}

\* How many of them report tx_i before its successor, and the successor
\* before tx_i.
RotationCount ==
    [i \in 1..5 |-> [fwd |-> Cardinality(RotationBefore(i, (i % 5) + 1)),
                     back |-> Cardinality(RotationBefore((i % 5) + 1, i))]]

\* C18 (as amended): in the rotation of 5 validators (quorum 4), 4 senders
\* report tx_i before tx_{i+1 mod 5}, so IsBlockedBy(tx_i, tx_{i+1 mod 5}) is
\* false, and 1 reports them the other way round, so
\* IsBlockedBy(tx_{i+1 mod 5}, tx_i) is true, for every i. In every state in
\* which twice the quorum exceeds the number of senders, of two distinct txs
\* at least one is blocked by the other.
C18_Rotation ==
    /\ FairnessLoopWendy.quorum = 4
    /\ \A i \in 1..5 :
          /\ RotationCount[i] = [fwd |-> 4, back |-> 1]
          /\ ~RotationBlockedBy[i].fwd
          /\ RotationBlockedBy[i].back
    /\ \A a \in Txs, b \in Txs :
          (a # b /\ 2 * quorum > Cardinality(DOMAIN senders))
              => IsBlockedBy(a, b) \/ IsBlockedBy(b, a)

\* C18 as stated: in the rotation IsBlockedBy(tx_i, tx_{i+1 mod 5}) is true
\* for every i; and so on a running Wendy with 5 senders and quorum 4, a tx
\* that 4 senders report before another is blocked by it.
C18_Original ==
    /\ \A i \in 1..5 : RotationBlockedBy[i].fwd
    /\ \A a \in Txs, b \in Txs :
          (/\ Cardinality(DOMAIN senders) = 5
           /\ quorum = 4
           /\ Cardinality(BeforeBy(a, b)) = 4) => IsBlockedBy(a, b)

\* All senders but one report a before b, one reports b only: with a quorum
\* of all but one, a is not blocked by b while b is blocked by a.
C18_Witness ==
    /\ quorum >= 2
    /\ Cardinality(DOMAIN senders) = quorum + 1
    /\ \E a \in Txs, b \in Txs :
          /\ a # b
          /\ Cardinality(BeforeBy(a, b)) = quorum
          /\ Cardinality(BeforeBy(b, a)) = 1
          /\ ~IsBlockedBy(a, b)
          /\ IsBlockedBy(b, a)

\* C19: under any interleaving of concurrent AddTx, AddVote, CommitBlock,
\* UpdateValidatorSet, VoteByTxHash, IsBlocked, IsBlockedBy and BlockingSet
\* calls, with fair scheduling every call acquires its locks and returns: a
\* writer never holds a mutex together with anybody else, and a goroutine that
\* is in a call is eventually out of it.
C19_NoDeadlock ==
    /\ [](\A m \in Mutexes : \A t \in Threads, u \in Threads :
            (t # u /\ HoldsWrite(t, m)) => ~HoldsWrite(u, m) /\ ~HoldsRead(u, m))
    /\ \A t \in Threads : (thr[t].op # "none") ~> (thr[t].op = "none")

\* A BlockingSet call holds the txs read lock and is parked on the votes lock
\* behind a writer that holds it.
C19_Witness ==
    \E t \in Threads, u \in Threads :
        /\ thr[t].op = "BlockingSet"
        /\ HoldsRead(t, "txsMtx")
        /\ Parked(t, "votesMtx")
        /\ HoldsWrite(u, "votesMtx")

\* The senders outside the validator set that have seen tx.
AdHocSeenBy(tx) == SeenBy(tx) \ Range(validators)

\* C20: hasQuorum counts every entry of the senders map, the ad hoc senders
\* AddVote created for pubkeys outside the validator set included: once
\* UpdateValidatorSet has set a quorum, quorum many senders outside the
\* validator set that have seen tx make IsBlocked(tx) false, and
\* IsBlocked(tx) is false exactly when quorum many senders of the map,
\* validators or not, have seen tx. The ad hoc senders live between two
\* UpdateValidatorSet calls: when one returns, the map holds the validators.
C20_AdHocCounted ==
    /\ \A tx \in Txs :
          /\ (quorum >= 1 /\ Cardinality(AdHocSeenBy(tx)) >= quorum)
                => ~IsBlocked(tx)
          /\ quorum >= 1 => (~IsBlocked(tx) <=> Cardinality(SeenBy(tx)) >= quorum)
    /\ ret.op = "UpdateValidatorSet" => DOMAIN senders = Range(validators)

\* A validator set is installed, no validator has seen tx, and the votes of
\* senders outside the set alone have unblocked it.
C20_Witness ==
    /\ Len(validators) >= 1
    /\ ret.op = "AddVote"
    /\ \E tx \in Txs :
          /\ SeenBy(tx) \cap Range(validators) = {}
          /\ Cardinality(AdHocSeenBy(tx)) >= quorum
          /\ ~IsBlocked(tx)

====
